---- MODULE Spec2Model ----
(***************************************************************************)
(* Subgraph extraction and path enumeration of sd_kgqa                     *)
(* (src/src/neo4j_server.py): Neo4jService.get_subgraph assembles the path *)
(* records of one bounded-depth traversal query into a node list and an    *)
(* edge list, Neo4jService.get_format_subgraph_paths renders the assembled *)
(* subgraph as root-to-leaf path strings.                                  *)
(*                                                                         *)
(* Python dicts are modelled as sequences of entries in insertion order    *)
(* (the code iterates over them), a path string as the sequence of its     *)
(* tokens, the arrow '->' being a token of its own.                        *)
(***************************************************************************)
EXTENDS Integers, Sequences, FiniteSets, TLC

VARIABLES
  store,       \* the graph the store holds
  pc,          \* "idle", or "returned" when a call has handed over its result
  call,        \* the call that was made and its arguments
  records,     \* the path records the store answered the call's query with
  res_entity,  \* what get_subgraph returned
  res_paths,   \* what get_format_subgraph_paths returned
  entity_path, \* what the hop filter of step2_get_subgraph or _build_paths kept
  outcome,     \* "ok", or the exception the call raised
  fault,       \* what the store did to the call's query
  queries,     \* the number of traversal queries the call has issued
  _neo4j_service, \* the module's global: None or the instance it refers to
  instances,   \* the Neo4jService objects constructed so far in the process
  callers      \* each caller's position in step2_get_subgraph and its locals

vars == <<store, pc, call, records, res_entity, res_paths, entity_path,
          outcome, fault, queries, _neo4j_service, instances, callers>>

(***************************************************************************)
(* Bounds of the model.                                                    *)
(***************************************************************************)
\* number of nodes in the store
MaxNodes == 3
\* largest number of relationships in the store
MaxRels == 2
\* largest hop limit a caller passes
MaxDepth == 2
\* a store differs from a plain one (every node labelled [Entity] or
\* [Other], names distinct, every relationship carrying its own relation
\* type and a description, no concurrent writer) in at most MaxOdd places
MaxOdd == 1
\* longest list of path strings handed to a hop filter on its own
MaxList == 2
\* largest number of tokens of such a path string
MaxTokens == 4
\* number of callers that run in the process at the same time
MaxCallers == 2

(***************************************************************************)
(* The graph store.                                                        *)
(***************************************************************************)
Nodes == 1 .. MaxNodes

NodeNames == <<"A", "B", "C", "D", "E">>

RelTypes == <<"rel1", "rel2", "rel3", "rel4", "rel5">>

\* stands for a key that a property map does not have
Missing == "<missing>"

\* stands for node_labels = None
NoFilter == <<"<None>">>

Arrow == "->"

PlainLabelLists == {<<"Entity">>, <<"Other">>}

LabelLists == PlainLabelLists \cup {<< >>, <<"Other", "Entity">>}

\* the endpoints of a relationship (a relationship may be a loop)
Pairs == Nodes \X Nodes

PlainStores ==
  UNION { { [ labels |-> l,
              names  |-> [n \in Nodes |-> NodeNames[n]],
              rels   |-> [i \in 1 .. k |->
                            [ start |-> ps[i][1], end |-> ps[i][2],
                              relation_type |-> RelTypes[i],
                              description |-> "desc" ]],
              write  |-> 0 ] :
            l \in [Nodes -> PlainLabelLists], ps \in [1 .. k -> Pairs] } :
          k \in 0 .. MaxRels }

\* the stores that differ from s in one more place
OneOdd(s) ==
  { [s EXCEPT !.labels[n] = l] :
      n \in Nodes, l \in LabelLists \ PlainLabelLists }
  \cup { [s EXCEPT !.names[p[2]] = NodeNames[p[1]]] :
           p \in {q \in Pairs : q[1] < q[2]} }
  \cup { [s EXCEPT !.rels[i].relation_type = t] :
           i \in 1 .. Len(s.rels), t \in {Missing, RelTypes[1]} }
  \cup { [s EXCEPT !.rels[i].description = Missing] : i \in 1 .. Len(s.rels) }
  \cup { [s EXCEPT !.write = n] : n \in Nodes }

\* the stores that differ from s in at most k more places
RECURSIVE Variants(_, _)
Variants(s, k) ==
  IF k = 0 THEN {s}
  ELSE {s} \cup UNION { Variants(t, k - 1) : t \in OneOdd(s) }

\* element ids of nodes and relationships
NodeId(n) == <<"n", n>>

RelId(i) == <<"r", i>>

(***************************************************************************)
(* The traversal query of get_subgraph.  The store answers with one record *)
(* per path of 1..depth distinct relationships that starts at a node named *)
(* name; it expands relationships in the order it holds them.  A           *)
(* concurrent writer (store.write) commits a new description of one node   *)
(* after the first record has been streamed.                               *)
(***************************************************************************)
Max(a, b) == IF a >= b THEN a ELSE b

\* the node reached from cur over relationship r in the given direction, 0 if none
Step(r, cur, direction) ==
  IF direction \in {"out", "both"} /\ r.start = cur THEN r.end
  ELSE IF direction \in {"in", "both"} /\ r.end = cur THEN r.start
  ELSE 0

RECURSIVE Expand(_, _, _, _, _, _)
Expand(s, ns, used, i, depth, direction) ==
  IF i > Len(s.rels) THEN << >>
  ELSE LET nxt == IF \E j \in 1 .. Len(used) : used[j] = i THEN 0
                  ELSE Step(s.rels[i], ns[Len(ns)], direction)
           here == IF nxt = 0 THEN << >>
                   ELSE <<[nodes |-> Append(ns, nxt), rels |-> Append(used, i)]>>
                        \o (IF Len(used) + 1 < depth
                            THEN Expand(s, Append(ns, nxt), Append(used, i), 1,
                                        depth, direction)
                            ELSE << >>)
       IN  here \o Expand(s, ns, used, i + 1, depth, direction)

RECURSIVE MatchPaths(_, _, _, _, _)
MatchPaths(s, name, n, depth, direction) ==
  IF n > MaxNodes THEN << >>
  ELSE (IF s.names[n] = name
        THEN Expand(s, <<n>>, << >>, 1, depth, direction)
        ELSE << >>)
       \o MatchPaths(s, name, n + 1, depth, direction)

\* the node n as the driver hands it over in record number i
RawNode(s, n, i) ==
  [ element_id |-> NodeId(n),
    labels |-> s.labels[n],
    name |-> s.names[n],
    description |-> IF s.write = n /\ i > 1 THEN "desc2" ELSE "desc" ]

RawRel(s, j) ==
  [ element_id |-> RelId(j),
    start_element_id |-> NodeId(s.rels[j].start),
    end_element_id |-> NodeId(s.rels[j].end),
    properties |-> [ relation_type |-> s.rels[j].relation_type,
                     description |-> s.rels[j].description ] ]

\* RunQuery without the condition start.name = $name
RunQuery_AnyName(s, name, depth, direction) ==
  LET ps == MatchPaths(s, s.names[1], 1, depth, direction)
  IN  [ i \in 1 .. Len(ps) |->
          [ nodes |-> [k \in 1 .. Len(ps[i].nodes) |-> RawNode(s, ps[i].nodes[k], i)],
            relationships |-> [k \in 1 .. Len(ps[i].rels) |-> RawRel(s, ps[i].rels[k])] ] ]

RunQuery(s, name, depth, direction) ==
  LET ps == MatchPaths(s, name, 1, depth, direction)
  IN  [ i \in 1 .. Len(ps) |->
          [ nodes |-> [k \in 1 .. Len(ps[i].nodes) |-> RawNode(s, ps[i].nodes[k], i)],
            relationships |-> [k \in 1 .. Len(ps[i].rels) |-> RawRel(s, ps[i].rels[k])] ] ]

(***************************************************************************)
(* Neo4jService.get_subgraph                                               *)
(***************************************************************************)
HasKey(m, k) == \E i \in 1 .. Len(m) : m[i].element_id = k

Get(m, k) == m[CHOOSE i \in 1 .. Len(m) : m[i].element_id = k]

_normalize_node(node) ==
  [ element_id |-> node.element_id,
    name |-> node.name,
    description |-> node.description,
    labels |-> node.labels ]

_normalize_rel(rel) ==
  [ element_id |-> rel.element_id,
    start_node_element_id |-> rel.start_element_id,
    end_node_element_id |-> rel.end_element_id,
    properties |-> rel.properties ]

\* node_labels is None or any(label in node_labels_list for label in node_labels)
LabelMatch(node_labels, node_labels_list) ==
  \/ node_labels = NoFilter
  \/ \E a \in 1 .. Len(node_labels) : \E b \in 1 .. Len(node_labels_list) :
        node_labels[a] = node_labels_list[b]

\* FirstSeen with the later occurrence overwriting the earlier one
LastSeen(stream) ==
  LET numbered == [i \in 1 .. Len(stream) |-> [at |-> i, elem |-> stream[i]]]
      kept == SelectSeq(numbered,
                LAMBDA o : \A j \in 1 .. (o.at - 1) :
                              stream[j].element_id # o.elem.element_id)
  IN  [k \in 1 .. Len(kept) |->
         LET later == {j \in 1 .. Len(stream) :
                         stream[j].element_id = kept[k].elem.element_id}
         IN  stream[CHOOSE j \in later : \A i \in later : i <= j]]

\* the entries of a stream of elements that a dict keyed by element_id
\* holds after "if element_id not in map: map[element_id] = ..." has run
\* for each element in turn: the first occurrence of every element_id
FirstSeen(stream) ==
  LET numbered == [i \in 1 .. Len(stream) |-> [at |-> i, elem |-> stream[i]]]
      kept == SelectSeq(numbered,
                LAMBDA o : \A j \in 1 .. (o.at - 1) :
                              stream[j].element_id # o.elem.element_id)
  IN  [k \in 1 .. Len(kept) |-> kept[k].elem]

\* path.nodes of every record in turn
RECURSIVE NodeStream(_, _)
NodeStream(recs, i) ==
  IF i > Len(recs) THEN << >>
  ELSE recs[i].nodes \o NodeStream(recs, i + 1)

\* path.relationships of every record in turn
RECURSIVE RelStream(_, _)
RelStream(recs, i) ==
  IF i > Len(recs) THEN << >>
  ELSE recs[i].relationships \o RelStream(recs, i + 1)

\* the three dicts after the loop over the records
Collect(recs, node_labels) ==
  LET first_nodes == FirstSeen(NodeStream(recs, 1))
      first_rels == FirstSeen(RelStream(recs, 1))
      all_nodes_map == [i \in 1 .. Len(first_nodes) |-> _normalize_node(first_nodes[i])]
  IN  [ all_nodes_map |-> all_nodes_map,
        nodes_map |-> SelectSeq(all_nodes_map,
                        LAMBDA node_info : LabelMatch(node_labels, node_info.labels)),
        edges_map |-> [i \in 1 .. Len(first_rels) |-> _normalize_rel(first_rels[i])] ]

\* RepairEdge that keeps the edge and pulls no endpoint back
RepairEdge_NoPull(r, edge, all_nodes_map) ==
  IF \/ edge.start_node_element_id \in r.filtered_node_element_ids
     \/ edge.end_node_element_id \in r.filtered_node_element_ids
  THEN [r EXCEPT !.valid_edges = Append(@, edge)]
  ELSE r

\* one round of the loop over edges_list
RepairEdge(r, edge, all_nodes_map) ==
  LET s == edge.start_node_element_id
      e == edge.end_node_element_id
      start_in_filtered == s \in r.filtered_node_element_ids
      end_in_filtered == e \in r.filtered_node_element_ids
      r1 == [r EXCEPT !.valid_edges = Append(@, edge)]
      r2 == IF start_in_filtered /\ e \notin r1.filtered_node_element_ids
               /\ HasKey(all_nodes_map, e)
            THEN [r1 EXCEPT !.nodes_list = Append(@, Get(all_nodes_map, e)),
                            !.filtered_node_element_ids = @ \cup {e}]
            ELSE r1
      r3 == IF end_in_filtered /\ s \notin r2.filtered_node_element_ids
               /\ HasKey(all_nodes_map, s)
            THEN [r2 EXCEPT !.nodes_list = Append(@, Get(all_nodes_map, s)),
                            !.filtered_node_element_ids = @ \cup {s}]
            ELSE r2
  IN  IF start_in_filtered \/ end_in_filtered THEN r3 ELSE r

RECURSIVE Repair(_, _, _, _)
Repair(r, edges_list, k, all_nodes_map) ==
  IF k > Len(edges_list) THEN r
  ELSE Repair(RepairEdge(r, edges_list[k], all_nodes_map), edges_list, k + 1,
              all_nodes_map)

Assemble(recs, node_labels) ==
  LET acc == Collect(recs, node_labels)
      nodes_list == acc.nodes_map
      edges_list == acc.edges_map
  IN  Repair([ nodes_list |-> nodes_list,
               filtered_node_element_ids |->
                 {nodes_list[i].element_id : i \in 1 .. Len(nodes_list)},
               valid_edges |-> << >> ],
             edges_list, 1, acc.all_nodes_map)

Directions == {"out", "in", "both", "sideways"}

\* ClampDepth that lets every hop limit through
ClampDepth_NoClamp(depth) == depth

\* depth = max(1, int(depth))
ClampDepth(depth) == Max(1, depth)

\* ClampDirection that lets every direction through
ClampDirection_Keep(direction) == direction

\* if direction not in ("out", "in", "both"): direction = "both"
ClampDirection(direction) ==
  IF direction \notin {"out", "in", "both"} THEN "both" ELSE direction

\* the records that the store answers the query of get_subgraph with
QueryOf(s, name, depth, direction) ==
  RunQuery(s, name, ClampDepth(depth), ClampDirection(direction))

\* the store answers, cannot be reached when the query is run, or times out
\* while the records are streamed
Faults == {"none", "unreachable", "timed_out"}

\* SessionRun with the loop over the records inside a try that swallows
\* the failure of the store
SessionRun_Swallow(s, name, depth, direction, flt) ==
  LET full == QueryOf(s, name, depth, direction)
  IN  [ queries |-> 1,
        raised |-> FALSE,
        records |-> IF flt = "none" THEN full
                    ELSE IF flt = "unreachable" \/ full = << >> THEN << >>
                    ELSE SubSeq(full, 1, 1) ]

\* result = session.run(cypher, ...) and "for record in result": the query
\* is run once; the records the loop gets, and whether the driver raised
SessionRun(s, name, depth, direction, flt) ==
  LET full == QueryOf(s, name, depth, direction)
  IN  [ queries |-> 1,
        raised |-> flt # "none",
        records |-> IF flt = "none" THEN full
                    ELSE IF flt = "unreachable" \/ full = << >> THEN << >>
                    ELSE SubSeq(full, 1, 1) ]

\* a call that has returned nothing
NoResult ==
  [ nodes |-> << >>, edges |-> << >>,
    stats |-> [ total_nodes |-> 0, total_edges |-> 0, start_node |-> "",
                depth |-> 0, direction |-> "" ] ]

\* value is the dict that get_subgraph returns
get_subgraph(s, name, depth, direction, node_labels, flt) ==
  LET Return(q) ==
        LET r == Assemble(q.records, node_labels)
        IN  [ queries |-> q.queries,
              records |-> q.records,
              outcome |-> IF q.raised THEN "ServiceUnavailable" ELSE "ok",
              value |-> IF q.raised THEN NoResult
                        ELSE [ nodes |-> r.nodes_list,
                               edges |-> r.valid_edges,
                               stats |-> [ total_nodes |-> Len(r.nodes_list),
                                           total_edges |-> Len(r.valid_edges),
                                           start_node |-> name,
                                           depth |-> ClampDepth(depth),
                                           direction |-> ClampDirection(direction) ] ] ]
  IN  Return(SessionRun(s, name, depth, direction, flt))

(***************************************************************************)
(* Neo4jService.get_format_subgraph_paths                                  *)
(***************************************************************************)
\* the dicts node_map, ne and du get their keys together, in this order
Keys(m) == {m.node_map[i].element_id : i \in 1 .. Len(m.node_map)}

Put(f, k, v) == [x \in DOMAIN f \cup {k} |-> IF x = k THEN v ELSE f[x]]

\* one round of the loop over nodes
MapNode(m, node) ==
  IF m.status # "ok" THEN m
  ELSE IF Len(node.labels) = 0 THEN [m EXCEPT !.status = "IndexError"]
  ELSE IF node.labels[1] # "Entity" THEN m
  ELSE [m EXCEPT !.node_map = Append(@, [ element_id |-> node.element_id,
                                          name |-> node.name,
                                          description |-> node.description ]),
                 !.ne = Put(@, node.element_id, << >>),
                 !.du = Put(@, node.element_id, 0)]

\* MapEdge that counts the edges of one ordered pair of nodes once
MapEdge_CountOnce(m, edge) ==
  LET start_node_id == edge.start_node_element_id
      end_node_id == edge.end_node_element_id
  IN  IF m.status # "ok" THEN m
      ELSE IF start_node_id \notin Keys(m) \/ end_node_id \notin Keys(m) THEN m
      ELSE IF edge.properties.relation_type = Missing
              \/ edge.properties.description = Missing
           THEN [m EXCEPT !.status = "KeyError"]
      ELSE [m EXCEPT !.edge_map = Put(@, <<start_node_id, end_node_id>>,
                                      <<edge.properties.relation_type,
                                        edge.properties.description>>),
                     !.ne = Put(@, start_node_id, Append(@[start_node_id], end_node_id)),
                     !.du = Put(@, end_node_id,
                                IF <<start_node_id, end_node_id>> \in DOMAIN m.edge_map
                                THEN @[end_node_id] ELSE @[end_node_id] + 1)]

\* one round of the loop over edges
MapEdge(m, edge) ==
  LET start_node_id == edge.start_node_element_id
      end_node_id == edge.end_node_element_id
  IN  IF m.status # "ok" THEN m
      ELSE IF start_node_id \notin Keys(m) \/ end_node_id \notin Keys(m) THEN m
      ELSE IF edge.properties.relation_type = Missing
              \/ edge.properties.description = Missing
           THEN [m EXCEPT !.status = "KeyError"]
      ELSE [m EXCEPT !.edge_map = Put(@, <<start_node_id, end_node_id>>,
                                      <<edge.properties.relation_type,
                                        edge.properties.description>>),
                     !.ne = Put(@, start_node_id, Append(@[start_node_id], end_node_id)),
                     !.du = Put(@, end_node_id, @[end_node_id] + 1)]

RECURSIVE MapNodes(_, _, _)
MapNodes(m, nodes, k) ==
  IF k > Len(nodes) THEN m ELSE MapNodes(MapNode(m, nodes[k]), nodes, k + 1)

RECURSIVE MapEdges(_, _, _)
MapEdges(m, edges, k) ==
  IF k > Len(edges) THEN m ELSE MapEdges(MapEdge(m, edges[k]), edges, k + 1)

BuildModel(res) ==
  MapEdges(MapNodes([ status |-> "ok", node_map |-> << >>,
                      ne |-> << >>, du |-> << >>, edge_map |-> << >> ],
                    res.nodes, 1),
           res.edges, 1)

NameOf(m, node_id) == Get(m.node_map, node_id).name

\* Extend with one arrow per hop
Extend_OneArrow(m, path, node_id, ne_id) ==
  path \o <<Arrow, m.edge_map[<<node_id, ne_id>>][1], NameOf(m, ne_id)>>

\* path + '->' + edge_map[(node_id, ne_id)][0] + '->' + node_map[ne_id][0]
Extend(m, path, node_id, ne_id) ==
  path \o <<Arrow, m.edge_map[<<node_id, ne_id>>][1], Arrow, NameOf(m, ne_id)>>

\* dfs(node_id, path) as frame number d of the call stack.  A stack deeper
\* than the number of nodes holds a node twice, and from there the recursion
\* repeats itself until Python raises RecursionError.
RECURSIVE dfs(_, _, _, _)
RECURSIVE dfsChildren(_, _, _, _, _)
dfs(m, node_id, path, d) ==
  IF d > Len(m.node_map) THEN [overflow |-> TRUE, paths |-> << >>]
  ELSE IF node_id \notin DOMAIN m.ne \/ m.ne[node_id] = << >>
       THEN [overflow |-> FALSE, paths |-> <<path>>]
       ELSE dfsChildren(m, node_id, path, d, 1)

dfsChildren(m, node_id, path, d, k) ==
  IF k > Len(m.ne[node_id]) THEN [overflow |-> FALSE, paths |-> << >>]
  ELSE LET ne_id == m.ne[node_id][k]
           sub == dfs(m, ne_id, Extend(m, path, node_id, ne_id), d + 1)
       IN  IF sub.overflow THEN sub
           ELSE LET rest == dfsChildren(m, node_id, path, d, k + 1)
                IN  [overflow |-> rest.overflow, paths |-> sub.paths \o rest.paths]

\* the loop over du.keys()
RECURSIVE dfsRoots(_, _)
dfsRoots(m, k) ==
  IF k > Len(m.node_map) THEN [overflow |-> FALSE, paths |-> << >>]
  ELSE LET node_id == m.node_map[k].element_id
           sub == IF m.du[node_id] = 0
                  THEN dfs(m, node_id, <<NameOf(m, node_id)>>, 1)
                  ELSE [overflow |-> FALSE, paths |-> << >>]
       IN  IF sub.overflow THEN sub
           ELSE LET rest == dfsRoots(m, k + 1)
                IN  [overflow |-> rest.overflow, paths |-> sub.paths \o rest.paths]

\* what get_format_subgraph_paths does with the result of get_subgraph
Enumerate(res) ==
  LET m == BuildModel(res)
      r == dfsRoots(m, 1)
  IN  IF m.status # "ok" THEN [outcome |-> m.status, paths |-> << >>]
      ELSE IF r.overflow THEN [outcome |-> "RecursionError", paths |-> << >>]
      ELSE [outcome |-> "ok", paths |-> r.paths]

get_format_subgraph_paths(s, init_entity, depth, flt) ==
  LET Return(g) ==
        LET e == Enumerate(g.value)
        IN  [ queries |-> g.queries,
              records |-> g.records,
              res_entity |-> g.value,
              outcome |-> IF g.outcome # "ok" THEN g.outcome ELSE e.outcome,
              paths |-> IF g.outcome # "ok" THEN << >> ELSE e.paths ]
  IN  Return(get_subgraph(s, init_entity, depth, "both", <<"Entity">>, flt))

(***************************************************************************)
(* The hop filters of the callers: step2_get_subgraph (pipeline.py) and    *)
(* _build_paths (export_qa_samples.py).                                    *)
(***************************************************************************)
\* p.count("->")
CountArrows(p) == Cardinality({k \in 1 .. Len(p) : p[k] = Arrow})

\* '->' in item
ArrowIn(item) == \E k \in 1 .. Len(item) : item[k] = Arrow

\* get_format_subgraph_paths(entity, depth=2)
Step2Depth == 2

\* p.count("->") >= 4
BuildPathsArrows == 4

\* "for p in paths: if p.count('->') < minimum: paths.remove(p)", which steps
\* over the element that follows a removed one
RECURSIVE RemoveLoop(_, _, _)
RemoveLoop(paths, minimum, i) ==
  IF i > Len(paths) THEN paths
  ELSE IF CountArrows(paths[i]) < minimum
       THEN RemoveLoop(SubSeq(paths, 1, i - 1) \o SubSeq(paths, i + 1, Len(paths)),
                       minimum, i + 1)
       ELSE RemoveLoop(paths, minimum, i + 1)

\* HopFilter that removes from the list it iterates over
HopFilter_RemoveInLoop(paths, minimum) == RemoveLoop(paths, minimum, 1)

\* HopFilter that keeps the paths with more arrows than the minimum
HopFilter_Strict(paths, minimum) ==
  SelectSeq(paths, LAMBDA p : CountArrows(p) > minimum)

\* [p for p in paths if p.count("->") >= minimum]
HopFilter(paths, minimum) ==
  SelectSeq(paths, LAMBDA p : CountArrows(p) >= minimum)

\* [item for item in entity_path if '->' in item]
Step2Filter(entity_path0) == SelectSeq(entity_path0, ArrowIn)

step2_get_subgraph(s, entity, flt) ==
  LET Return(r) ==
        [entity_path |-> IF r.outcome # "ok" THEN << >> ELSE Step2Filter(r.paths)]
        @@ r
  IN  Return(get_format_subgraph_paths(s, entity, Step2Depth, flt))

_build_paths(s, name, depth, flt) ==
  LET Return(r) ==
        [entity_path |-> IF r.outcome # "ok" THEN << >>
                         ELSE HopFilter(r.paths, BuildPathsArrows)]
        @@ r
  IN  Return(get_format_subgraph_paths(s, name, depth, flt))

(***************************************************************************)
(* The process-wide service: the global _neo4j_service, the instances      *)
(* constructed and the callers of get_neo4j_service.                       *)
(***************************************************************************)
Callers == 1 .. MaxCallers

\* the graph identifiers a caller can name
GraphIds == {"g1", "g2"}

\* graph_id = None, the default of the parameter
NoGraphId == "None"

\* os.getenv("NEO4J_GRAPH_ID", "651fa83d-2841-47c3-b4cf-7394a546f28e")
DefaultGraphId == "651fa83d"

\* _neo4j_service = None; the instances are numbered from 1
NoService == 0

\* Neo4jService(graph_id = graph_id): the object the constructor builds
Neo4jService(graph_id) ==
  [graph_id |-> IF graph_id = NoGraphId THEN DefaultGraphId ELSE graph_id]

\* a caller outside step2_get_subgraph
IdleCaller ==
  [ pc |-> "idle", graph_id |-> NoGraphId, made |-> NoService,
    neo4j_service |-> NoService, scope |-> NoGraphId ]

service == <<_neo4j_service, instances, callers>>

\* the module has been imported and get_neo4j_service has not been called
NoServiceYet ==
  /\ _neo4j_service = NoService
  /\ instances = << >>
  /\ callers = [c \in Callers |-> IdleCaller]

(***************************************************************************)
(* The caller: one extraction call at a time, its result dropped before    *)
(* the next one.                                                           *)
(***************************************************************************)
EntityNames == {NodeNames[1], "Z"}

Depths == 0 .. MaxDepth

LabelFilters == {NoFilter, <<"Entity">>}

NoCall == [op |-> "none"]

Init ==
  /\ \E plain \in PlainStores : store \in Variants(plain, MaxOdd)
  /\ pc = "idle"
  /\ call = NoCall
  /\ records = << >>
  /\ res_entity = NoResult
  /\ res_paths = << >>
  /\ entity_path = << >>
  /\ outcome = "none"
  /\ fault = "none"
  /\ queries = 0
  /\ NoServiceYet

GetSubgraph(name, depth, direction, node_labels, flt) ==
  /\ pc = "idle"
  /\ call' = [ op |-> "get_subgraph", name |-> name, depth |-> depth,
               direction |-> direction, node_labels |-> node_labels ]
  /\ \E r \in {get_subgraph(store, name, depth, direction, node_labels, flt)} :
         /\ records' = r.records
         /\ queries' = r.queries
         /\ res_entity' = r.value
         /\ outcome' = r.outcome
  /\ res_paths' = << >>
  /\ entity_path' = << >>
  /\ fault' = flt
  /\ pc' = "returned"
  /\ UNCHANGED store
  /\ UNCHANGED service

GetFormatSubgraphPaths(init_entity, depth, flt) ==
  /\ pc = "idle"
  /\ \E r \in {get_format_subgraph_paths(store, init_entity, depth, flt)} :
         /\ records' = r.records
         /\ queries' = r.queries
         /\ res_entity' = r.res_entity
         /\ res_paths' = r.paths
         /\ outcome' = r.outcome
  /\ call' = [ op |-> "get_format_subgraph_paths", name |-> init_entity,
               depth |-> depth, direction |-> "both",
               node_labels |-> <<"Entity">> ]
  /\ entity_path' = << >>
  /\ fault' = flt
  /\ pc' = "returned"
  /\ UNCHANGED store
  /\ UNCHANGED service

Step2GetSubgraph(entity, flt) ==
  /\ pc = "idle"
  /\ \E r \in {step2_get_subgraph(store, entity, flt)} :
         /\ records' = r.records
         /\ queries' = r.queries
         /\ res_entity' = r.res_entity
         /\ res_paths' = r.paths
         /\ entity_path' = r.entity_path
         /\ outcome' = r.outcome
  /\ call' = [ op |-> "step2_get_subgraph", name |-> entity,
               depth |-> Step2Depth, direction |-> "both",
               node_labels |-> <<"Entity">> ]
  /\ fault' = flt
  /\ pc' = "returned"
  /\ UNCHANGED store
  /\ UNCHANGED service

BuildPaths(name, depth, flt) ==
  /\ pc = "idle"
  /\ \E r \in {_build_paths(store, name, depth, flt)} :
         /\ records' = r.records
         /\ queries' = r.queries
         /\ res_entity' = r.res_entity
         /\ res_paths' = r.paths
         /\ entity_path' = r.entity_path
         /\ outcome' = r.outcome
  /\ call' = [ op |-> "_build_paths", name |-> name,
               depth |-> depth, direction |-> "both",
               node_labels |-> <<"Entity">> ]
  /\ fault' = flt
  /\ pc' = "returned"
  /\ UNCHANGED store
  /\ UNCHANGED service

\* the caller is done with the result
Discard ==
  /\ pc = "returned"
  /\ pc' = "idle"
  /\ call' = NoCall
  /\ records' = << >>
  /\ res_entity' = NoResult
  /\ res_paths' = << >>
  /\ entity_path' = << >>
  /\ outcome' = "none"
  /\ fault' = "none"
  /\ queries' = 0
  /\ UNCHANGED store
  /\ UNCHANGED service

Next ==
  \/ \E name \in EntityNames, depth \in Depths, direction \in Directions,
        node_labels \in LabelFilters, flt \in Faults :
        GetSubgraph(name, depth, direction, node_labels, flt)
  \/ \E init_entity \in EntityNames, depth \in Depths, flt \in Faults :
        GetFormatSubgraphPaths(init_entity, depth, flt)
  \/ \E entity \in EntityNames, flt \in Faults : Step2GetSubgraph(entity, flt)
  \/ \E name \in EntityNames, depth \in Depths, flt \in Faults :
        BuildPaths(name, depth, flt)
  \/ Discard

Spec == Init /\ [][Next]_vars

(***************************************************************************)
(* The hop filters on their own, applied to any list of path strings.      *)
(***************************************************************************)
Tokens == {NodeNames[1], Arrow}

PathStrings == UNION {[1 .. k -> Tokens] : k \in 0 .. MaxTokens}

PathLists == UNION {[1 .. k -> PathStrings] : k \in 0 .. MaxList}

Minimums == 0 .. MaxTokens

FilterInit ==
  /\ res_paths \in PathLists
  /\ store = [ labels |-> [n \in Nodes |-> <<"Entity">>],
               names |-> [n \in Nodes |-> NodeNames[n]],
               rels |-> << >>, write |-> 0 ]
  /\ pc = "idle"
  /\ call = NoCall
  /\ records = << >>
  /\ res_entity = NoResult
  /\ entity_path = << >>
  /\ outcome = "none"
  /\ fault = "none"
  /\ queries = 0
  /\ NoServiceYet

\* the list comprehension of _build_paths
ApplyHopFilter(minimum) ==
  /\ pc = "idle"
  /\ entity_path' = HopFilter(res_paths, minimum)
  /\ call' = [op |-> "hop_filter", minimum |-> minimum]
  /\ outcome' = "ok"
  /\ pc' = "filtered"
  /\ UNCHANGED <<store, records, res_entity, res_paths, fault, queries>>
  /\ UNCHANGED service

\* the list comprehension of step2_get_subgraph
ApplyStep2Filter ==
  /\ pc = "idle"
  /\ entity_path' = Step2Filter(res_paths)
  /\ call' = [op |-> "step2_filter", minimum |-> 1]
  /\ outcome' = "ok"
  /\ pc' = "filtered"
  /\ UNCHANGED <<store, records, res_entity, res_paths, fault, queries>>
  /\ UNCHANGED service

\* the same filter applied to what it has kept
FilterAgain ==
  /\ pc = "filtered"
  /\ entity_path' = IF call.op = "hop_filter"
                    THEN HopFilter(entity_path, call.minimum)
                    ELSE Step2Filter(entity_path)
  /\ pc' = "refiltered"
  /\ UNCHANGED <<store, call, records, res_entity, res_paths, outcome, fault,
                 queries>>
  /\ UNCHANGED service

FilterNext ==
  \/ \E minimum \in Minimums : ApplyHopFilter(minimum)
  \/ ApplyStep2Filter
  \/ FilterAgain

FilterSpec == FilterInit /\ [][FilterNext]_vars

(***************************************************************************)
(* The enumerator of get_format_subgraph_paths on its own: the loops over  *)
(* nodes and edges and the depth-first search, given a subgraph as an      *)
(* assembler with label filter Entity hands it over: no edge without its   *)
(* endpoints, and every node carries the label Entity or is an endpoint of *)
(* an edge.                                                                *)
(***************************************************************************)
GivenNode(n, l) ==
  [ element_id |-> NodeId(n), name |-> NodeNames[n], description |-> "desc",
    labels |-> l ]

GivenEdge(i, p) ==
  [ element_id |-> RelId(i),
    start_node_element_id |-> NodeId(p[1]),
    end_node_element_id |-> NodeId(p[2]),
    properties |-> [relation_type |-> RelTypes[i], description |-> "desc"] ]

Admitted(res) ==
  \A i \in 1 .. Len(res.nodes) :
    \/ LabelMatch(<<"Entity">>, res.nodes[i].labels)
    \/ \E k \in 1 .. Len(res.edges) :
         \/ res.edges[k].start_node_element_id = res.nodes[i].element_id
         \/ res.edges[k].end_node_element_id = res.nodes[i].element_id

EnumInit ==
  /\ \E n \in 0 .. MaxNodes, e \in 0 .. MaxRels :
       \E l \in [1 .. n -> LabelLists], ps \in [1 .. e -> (1 .. n) \X (1 .. n)] :
         LET res == [ nodes |-> [k \in 1 .. n |-> GivenNode(k, l[k])],
                      edges |-> [i \in 1 .. e |-> GivenEdge(i, ps[i])],
                      stats |-> [ total_nodes |-> n, total_edges |-> e,
                                  start_node |-> NodeNames[1], depth |-> 1,
                                  direction |-> "both" ] ]
         IN  Admitted(res) /\ res_entity = res
  /\ store = [ labels |-> [n \in Nodes |-> <<"Entity">>],
               names |-> [n \in Nodes |-> NodeNames[n]],
               rels |-> << >>, write |-> 0 ]
  /\ pc = "idle"
  /\ call = NoCall
  /\ records = << >>
  /\ res_paths = << >>
  /\ entity_path = << >>
  /\ outcome = "none"
  /\ fault = "none"
  /\ queries = 0
  /\ NoServiceYet

EnumerateGiven ==
  /\ pc = "idle"
  /\ LET e == Enumerate(res_entity)
     IN  /\ res_paths' = e.paths
         /\ outcome' = e.outcome
  /\ call' = [op |-> "enumerate"]
  /\ pc' = "enumerated"
  /\ UNCHANGED <<store, records, res_entity, entity_path, fault, queries>>
  /\ UNCHANGED service

EnumNext == EnumerateGiven

EnumSpec == EnumInit /\ [][EnumNext]_vars

(***************************************************************************)
(* get_neo4j_service on its own: callers of step2_get_subgraph that run in *)
(* one process, a step of one caller at a time, each with the graph        *)
(* identifier it names.                                                    *)
(***************************************************************************)
extraction == <<store, pc, call, records, res_entity, res_paths, entity_path,
                outcome, fault, queries>>

ServiceInit ==
  /\ NoServiceYet
  /\ store = [ labels |-> [n \in Nodes |-> <<"Entity">>],
               names |-> [n \in Nodes |-> NodeNames[n]],
               rels |-> << >>, write |-> 0 ]
  /\ pc = "idle"
  /\ call = NoCall
  /\ records = << >>
  /\ res_entity = NoResult
  /\ res_paths = << >>
  /\ entity_path = << >>
  /\ outcome = "none"
  /\ fault = "none"
  /\ queries = 0

\* step2_get_subgraph(entity, graph_id) calls get_neo4j_service(graph_id)
EnterGetService(c, graph_id) ==
  /\ callers[c].pc = "idle"
  /\ callers' = [callers EXCEPT ![c] = [IdleCaller EXCEPT !.pc = "check",
                                                           !.graph_id = graph_id]]
  /\ UNCHANGED <<_neo4j_service, instances>>
  /\ UNCHANGED extraction

\* if _neo4j_service is None
CheckNone(c) ==
  /\ callers[c].pc = "check"
  /\ callers' = [callers EXCEPT ![c].pc = IF _neo4j_service = NoService
                                          THEN "construct" ELSE "return"]
  /\ UNCHANGED <<_neo4j_service, instances>>
  /\ UNCHANGED extraction

\* Neo4jService(graph_id = graph_id), which opens the driver and runs RETURN 1
Construct(c) ==
  /\ callers[c].pc = "construct"
  /\ instances' = Append(instances, Neo4jService(callers[c].graph_id))
  /\ callers' = [callers EXCEPT ![c].pc = "assign",
                                ![c].made = Len(instances) + 1]
  /\ UNCHANGED _neo4j_service
  /\ UNCHANGED extraction

\* _neo4j_service = the object just constructed
AssignGlobal(c) ==
  /\ callers[c].pc = "assign"
  /\ _neo4j_service' = callers[c].made
  /\ callers' = [callers EXCEPT ![c].pc = "return"]
  /\ UNCHANGED instances
  /\ UNCHANGED extraction

\* return _neo4j_service, which reads the global again
ReturnGlobal(c) ==
  /\ callers[c].pc = "return"
  /\ callers' = [callers EXCEPT ![c].pc = "query",
                                ![c].neo4j_service = _neo4j_service]
  /\ UNCHANGED <<_neo4j_service, instances>>
  /\ UNCHANGED extraction

\* session.run(cypher, name=name, limit=limit, graph_id=self.graph_id) of the
\* service the caller got
RunScoped(c) ==
  /\ callers[c].pc = "query"
  /\ callers' = [callers EXCEPT ![c].pc = "done",
                                ![c].scope = instances[callers[c].neo4j_service].graph_id]
  /\ UNCHANGED <<_neo4j_service, instances>>
  /\ UNCHANGED extraction

\* step2_get_subgraph returns
Leave(c) ==
  /\ callers[c].pc = "done"
  /\ callers' = [callers EXCEPT ![c] = IdleCaller]
  /\ UNCHANGED <<_neo4j_service, instances>>
  /\ UNCHANGED extraction

ServiceNext ==
  \/ \E c \in Callers, graph_id \in GraphIds \cup {NoGraphId} :
        EnterGetService(c, graph_id)
  \/ \E c \in Callers : CheckNone(c)
  \/ \E c \in Callers : Construct(c)
  \/ \E c \in Callers : AssignGlobal(c)
  \/ \E c \in Callers : ReturnGlobal(c)
  \/ \E c \in Callers : RunScoped(c)
  \/ \E c \in Callers : Leave(c)

ServiceSpec == ServiceInit /\ [][ServiceNext]_vars

(***************************************************************************)
(* Properties of get_subgraph                                              *)
(***************************************************************************)
\* a call has been made
Called == pc = "returned"

\* the store has answered the query of the call and the call is over
Returned == Called /\ fault = "none"

NodeIdsOf(res) == {res.nodes[i].element_id : i \in 1 .. Len(res.nodes)}

\* the node of the store behind an element id
StoreNode(id) == CHOOSE n \in Nodes : NodeId(n) = id

\* the node's labels pass the label filter of the call
MatchesFilter(id) == LabelMatch(call.node_labels, store.labels[StoreNode(id)])

\* C1: whatever the records and the label filter, both endpoints of every
\* edge that get_subgraph returns are element ids of returned nodes.
C1_NoDanglingEdge ==
  Returned =>
    \A i \in 1 .. Len(res_entity.edges) :
      /\ res_entity.edges[i].start_node_element_id \in NodeIdsOf(res_entity)
      /\ res_entity.edges[i].end_node_element_id \in NodeIdsOf(res_entity)

\* a returned edge one of whose endpoints does not pass the label filter
C1_Witness ==
  /\ Returned
  /\ call.op = "get_subgraph"
  /\ call.node_labels # NoFilter
  /\ \E i \in 1 .. Len(res_entity.edges) :
       \/ ~MatchesFilter(res_entity.edges[i].start_node_element_id)
       \/ ~MatchesFilter(res_entity.edges[i].end_node_element_id)

\* the first occurrence of element id in the stream of the records' nodes
FirstOccurrence(id) ==
  LET stream == NodeStream(records, 1)
      at == CHOOSE i \in 1 .. Len(stream) :
              /\ stream[i].element_id = id
              /\ \A j \in 1 .. (i - 1) : stream[j].element_id # id
  IN  stream[at]

\* C2: the returned node list has one entry per element id, also after the
\* repair has pulled nodes back in; the entry carries the attributes of the
\* node's first occurrence in the records; two nodes of the same name and
\* different element ids that pass the filter are two entries.
C2_OneEntryPerElementId ==
  Returned =>
    LET nodes == res_entity.nodes
        stream == NodeStream(records, 1)
    IN  /\ \A i, j \in 1 .. Len(nodes) :
             nodes[i].element_id = nodes[j].element_id => i = j
        /\ \A i \in 1 .. Len(nodes) :
             LET first == FirstOccurrence(nodes[i].element_id)
             IN  /\ nodes[i].name = first.name
                 /\ nodes[i].description = first.description
                 /\ nodes[i].labels = first.labels
        /\ \A a, b \in 1 .. Len(stream) :
             ( /\ stream[a].element_id # stream[b].element_id
               /\ stream[a].name = stream[b].name
               /\ LabelMatch(call.node_labels, stream[a].labels)
               /\ LabelMatch(call.node_labels, stream[b].labels) )
             => \E i, j \in 1 .. Len(nodes) :
                  /\ i # j
                  /\ nodes[i].element_id = stream[a].element_id
                  /\ nodes[j].element_id = stream[b].element_id

\* a node that the repair pulled back and that a later record shows with
\* another description than its first occurrence
C2_Witness ==
  /\ Returned
  /\ call.node_labels # NoFilter
  /\ \E i \in 1 .. Len(res_entity.nodes) :
       /\ ~LabelMatch(call.node_labels, res_entity.nodes[i].labels)
       /\ \E k \in 1 .. Len(NodeStream(records, 1)) :
            /\ NodeStream(records, 1)[k].element_id = res_entity.nodes[i].element_id
            /\ NodeStream(records, 1)[k].description # res_entity.nodes[i].description

(***************************************************************************)
(* Properties of get_format_subgraph_paths                                 *)
(***************************************************************************)
\* get_format_subgraph_paths has been called, by the caller or by
\* step2_get_subgraph or _build_paths
Enumerated == Returned /\ call.op # "get_subgraph"

\* the scenario: the store is the chain A -rel1-> B -rel2-> C, A and C are
\* labelled Entity, B is not, and the call starts at A with both hops
\* within the hop limit
ChainWithoutMiddleLabel ==
  /\ store = [ labels |-> [n \in Nodes |-> IF n = 2 THEN <<"Other">> ELSE <<"Entity">>],
               names |-> [n \in Nodes |-> NodeNames[n]],
               rels |-> << [ start |-> 1, end |-> 2, relation_type |-> RelTypes[1],
                             description |-> "desc" ],
                           [ start |-> 2, end |-> 3, relation_type |-> RelTypes[2],
                             description |-> "desc" ] >>,
               write |-> 0 ]
  /\ call.name = NodeNames[1]
  /\ ClampDepth(call.depth) >= 2

\* C3: when the label filter excludes the middle node B of the chain
\* A -rel1-> B -rel2-> C, the returned paths are the single path
\* A, rel1, B, rel2, C, the same as when B carries the label.
C3_FilterKeepsChain ==
  (Enumerated /\ ChainWithoutMiddleLabel) =>
    /\ outcome = "ok"
    /\ res_paths = << <<NodeNames[1], Arrow, RelTypes[1], Arrow, NodeNames[2],
                        Arrow, RelTypes[2], Arrow, NodeNames[3]>> >>
    /\ res_paths = get_format_subgraph_paths(
                     [store EXCEPT !.labels[2] = <<"Entity">>],
                     call.name, call.depth, "none").paths

\* the edges of the assembled subgraph that leave, and that enter, a node
OutEdges(res, id) ==
  {i \in 1 .. Len(res.edges) : res.edges[i].start_node_element_id = id}

InEdges(res, id) ==
  {i \in 1 .. Len(res.edges) : res.edges[i].end_node_element_id = id}

\* the element ids that a forward walk of 1..k edges reaches from id
RECURSIVE ReachedWithin(_, _, _)
ReachedWithin(res, id, k) ==
  IF k = 0 THEN {}
  ELSE LET next == {res.edges[i].end_node_element_id : i \in OutEdges(res, id)}
       IN  next \cup UNION {ReachedWithin(res, n, k - 1) : n \in next}

OnCycle(res, id) == id \in ReachedWithin(res, id, Len(res.edges))

Acyclic(res) == \A id \in NodeIdsOf(res) : ~OnCycle(res, id)

\* a directed cycle of the assembled subgraph can be reached from one of
\* its nodes of in-degree 0
CycleReachableFromRoot(res) ==
  \E root \in NodeIdsOf(res) :
    /\ InEdges(res, root) = {}
    /\ \E id \in ReachedWithin(res, root, Len(res.edges)) : OnCycle(res, id)

\* the forward walks of the assembled subgraph, as sequences of edge indices
IsWalk(res, w) ==
  \A k \in 1 .. (Len(w) - 1) :
    res.edges[w[k]].end_node_element_id = res.edges[w[k + 1]].start_node_element_id

EdgeWalks(res) ==
  {w \in UNION {[1 .. k -> 1 .. Len(res.edges)] : k \in 1 .. Len(res.edges)} :
     /\ IsWalk(res, w)
     /\ InEdges(res, res.edges[w[1]].start_node_element_id) = {}
     /\ OutEdges(res, res.edges[w[Len(w)]].end_node_element_id) = {}}

RECURSIVE RenderHops(_, _, _)
RenderHops(res, w, k) ==
  IF k > Len(w) THEN << >>
  ELSE <<Arrow, res.edges[w[k]].properties.relation_type, Arrow,
         Get(res.nodes, res.edges[w[k]].end_node_element_id).name>>
       \o RenderHops(res, w, k + 1)

RenderWalk(res, w) ==
  <<Get(res.nodes, res.edges[w[1]].start_node_element_id).name>>
  \o RenderHops(res, w, 1)

IsolatedNodes(res) ==
  {i \in 1 .. Len(res.nodes) :
     /\ InEdges(res, res.nodes[i].element_id) = {}
     /\ OutEdges(res, res.nodes[i].element_id) = {}}

\* every node of the assembled subgraph has Entity as its first label
EntityFirst(res) ==
  \A i \in 1 .. Len(res.nodes) :
    Len(res.nodes[i].labels) >= 1 /\ res.nodes[i].labels[1] = "Entity"

\* C4: on an acyclic assembled subgraph the returned list holds one string
\* per maximal forward walk from a node of in-degree 0 to a node without
\* outgoing edge, each with the names and relation types of its walk, and
\* nothing else (stated for the subgraphs all of whose nodes have Entity as
\* first label, where the list is returned).
C4_OnePathPerWalk ==
  (Enumerated /\ outcome = "ok" /\ EntityFirst(res_entity) /\ Acyclic(res_entity)) =>
    \A p \in {res_paths[i] : i \in 1 .. Len(res_paths)}
              \cup {RenderWalk(res_entity, w) : w \in EdgeWalks(res_entity)}
              \cup {<<res_entity.nodes[i].name>> : i \in IsolatedNodes(res_entity)} :
         Cardinality({i \in 1 .. Len(res_paths) : res_paths[i] = p})
           = Cardinality({w \in EdgeWalks(res_entity) : RenderWalk(res_entity, w) = p})
             + Cardinality({i \in IsolatedNodes(res_entity) :
                              <<res_entity.nodes[i].name>> = p})

\* the entity tokens of a path: the first token and every fourth after it
EntityTokens(p) == {p[k] : k \in {j \in 1 .. Len(p) : j % 4 = 1}}

\* C5: when the enumeration returns, every node of the assembled subgraph
\* is an entity of at least one returned path (stated for the subgraphs all
\* of whose nodes have Entity as first label).
C5_EveryNodeOnAPath ==
  (Enumerated /\ outcome = "ok" /\ EntityFirst(res_entity)) =>
    \A i \in 1 .. Len(res_entity.nodes) :
      \E k \in 1 .. Len(res_paths) :
        res_entity.nodes[i].name \in EntityTokens(res_paths[k])

\* C6: once the adjacency model is built, the depth-first recursion is
\* unbounded exactly when a directed cycle of the assembled subgraph can be
\* reached from a node of in-degree 0; otherwise a path list is returned.
C6_UnboundedIffCycleFromRoot ==
  (Enumerated /\ outcome \in {"ok", "RecursionError"}) =>
    (outcome = "RecursionError" <=> CycleReachableFromRoot(res_entity))

Hops(p) == (Len(p) - 1) \div 4

\* the start entity names one node of the store
OneStartNode == Cardinality({n \in Nodes : store.names[n] = call.name}) = 1

\* C7: no returned path has more hops than the hop limit of the query
\* (stated for a start entity that names one node).
C7_HopsWithinDepth ==
  (Enumerated /\ outcome = "ok" /\ OneStartNode) =>
    \A k \in 1 .. Len(res_paths) : Hops(res_paths[k]) <= ClampDepth(call.depth)

WellFormed(edge) == edge.properties.relation_type # Missing

\* C8: edges without relation type do not make the enumeration fail; the
\* result is the one obtained with these edges left out of the subgraph.
C8_MalformedEdgeSkipped ==
  (Enumerated /\ \E i \in 1 .. Len(res_entity.edges) : ~WellFormed(res_entity.edges[i])) =>
    LET rest == Enumerate([res_entity EXCEPT
                             !.edges = SelectSeq(@, LAMBDA edge : WellFormed(edge))])
    IN  /\ outcome = rest.outcome
        /\ res_paths = rest.paths

\* C9: of the edges found in the records, get_subgraph returns exactly
\* those with an endpoint whose labels pass the label filter.
C9_EdgeKeptIffEndpointMatches ==
  Returned =>
    LET found == FirstSeen(RelStream(records, 1))
    IN  \A k \in 1 .. Len(found) :
          (\E i \in 1 .. Len(res_entity.edges) :
              res_entity.edges[i].element_id = found[k].element_id)
          <=> ( \/ MatchesFilter(found[k].start_element_id)
                \/ MatchesFilter(found[k].end_element_id) )

\* C10: every returned node has an element id and at least one label, and
\* reading the first label of a node never fails.
C10_NodesHaveIdAndLabel ==
  Returned =>
    /\ \A i \in 1 .. Len(res_entity.nodes) :
         /\ Len(res_entity.nodes[i].element_id) > 0
         /\ Len(res_entity.nodes[i].labels) >= 1
    /\ outcome # "IndexError"

\* the sum of the in-degree counters of the first k nodes of the node map
RECURSIVE SumDu(_, _)
SumDu(m, k) ==
  IF k = 0 THEN 0 ELSE m.du[m.node_map[k].element_id] + SumDu(m, k - 1)

\* the edges of the assembled subgraph with both endpoints in the node map
EdgesWithin(res, m) ==
  {i \in 1 .. Len(res.edges) :
     /\ res.edges[i].start_node_element_id \in Keys(m)
     /\ res.edges[i].end_node_element_id \in Keys(m)}

\* C11: in the model that the enumerator builds of the assembled subgraph,
\* the in-degree counters of all nodes add up to the number of edges whose
\* two endpoints are both in the node map, parallel edges counted one by one.
C11_InDegreeSum ==
  (Enumerated /\ BuildModel(res_entity).status = "ok") =>
    LET m == BuildModel(res_entity)
    IN  /\ DOMAIN m.du = Keys(m)
        /\ SumDu(m, Len(m.node_map)) = Cardinality(EdgesWithin(res_entity, m))

\* two parallel edges, both counted at the node they lead to
C11_Witness ==
  /\ Enumerated
  /\ BuildModel(res_entity).status = "ok"
  /\ \E i, j \in EdgesWithin(res_entity, BuildModel(res_entity)) :
       /\ i # j
       /\ res_entity.edges[i].start_node_element_id = res_entity.edges[j].start_node_element_id
       /\ res_entity.edges[i].end_node_element_id = res_entity.edges[j].end_node_element_id
       /\ BuildModel(res_entity).du[res_entity.edges[i].end_node_element_id] = 2

\* no node of the store has the name the call starts at
StartAbsent == \A n \in Nodes : store.names[n] # call.name

\* C12: a call whose start entity is not in the store raises nothing;
\* get_subgraph returns no node and no edge, get_format_subgraph_paths
\* returns no path.
C12_AbsentStartIsEmpty ==
  (Returned /\ StartAbsent) =>
    /\ outcome = "ok"
    /\ res_entity.nodes = << >>
    /\ res_entity.edges = << >>
    /\ res_paths = << >>

\* a path enumeration that starts at a name absent from a store that holds
\* an edge between nodes labelled Entity
C12_Witness ==
  /\ Enumerated
  /\ StartAbsent
  /\ \E i \in 1 .. Len(store.rels) :
       /\ store.labels[store.rels[i].start] = <<"Entity">>
       /\ store.labels[store.rels[i].end] = <<"Entity">>

\* C13: a call issues one traversal query.  When the store fails the query,
\* be it before the first record or while the records are streamed, the
\* call raises, returns neither subgraph nor path list, and has issued the
\* query once; when the store answers, the call has issued the query once
\* and works on all the records of the answer.
C13_OneQueryNoRetry ==
  Called =>
    /\ queries = 1
    /\ fault # "none" =>
         /\ outcome = "ServiceUnavailable"
         /\ res_entity = NoResult
         /\ res_paths = << >>
         /\ entity_path = << >>
    /\ fault = "none" =>
         /\ outcome # "ServiceUnavailable"
         /\ records = QueryOf(store, call.name, call.depth, call.direction)

\* step2_get_subgraph has got a record that holds an edge between two nodes
\* labelled Entity when the store times out
C13_Witness ==
  /\ Called
  /\ call.op = "step2_get_subgraph"
  /\ fault = "timed_out"
  /\ Len(records) = 1
  /\ Len(QueryOf(store, call.name, call.depth, call.direction)) > 1
  /\ LET ms == Enumerate(Assemble(records, call.node_labels)
                          @@ [nodes |-> Assemble(records, call.node_labels).nodes_list,
                              edges |-> Assemble(records, call.node_labels).valid_edges])
     IN  ms.outcome = "ok" /\ Step2Filter(ms.paths) # << >>

\* get_subgraph has been called and the store has answered
GotSubgraph == Returned /\ call.op = "get_subgraph"

\* C14: get_subgraph called with a hop limit below 1 raises nothing and
\* runs the query, returns the subgraph and reports the stats (depth 1) of
\* the same call with hop limit 1; so it does for every hop limit below 1.
C14_DepthClampedToOne ==
  (GotSubgraph /\ call.depth < 1) =>
    LET one == get_subgraph(store, call.name, 1, call.direction,
                            call.node_labels, "none")
    IN  /\ outcome = "ok"
        /\ records = one.records
        /\ res_entity = one.value
        /\ res_entity.stats.depth = 1
        /\ \A depth \in (0 - MaxDepth) .. 0 :
             get_subgraph(store, call.name, depth, call.direction,
                          call.node_labels, "none") = one

\* a call with hop limit 0 on a store where hop limit 2 finds more
C14_Witness ==
  /\ GotSubgraph
  /\ call.depth = 0
  /\ Len(res_entity.edges) = 1
  /\ Len(get_subgraph(store, call.name, 2, call.direction, call.node_labels,
                      "none").value.edges) = 2

\* hop number k of a record follows its relationship from start to end
Forward(rec, k) ==
  /\ rec.relationships[k].start_element_id = rec.nodes[k].element_id
  /\ rec.relationships[k].end_element_id = rec.nodes[k + 1].element_id

\* hop number k of a record follows its relationship from end to start
Backward(rec, k) ==
  /\ rec.relationships[k].end_element_id = rec.nodes[k].element_id
  /\ rec.relationships[k].start_element_id = rec.nodes[k + 1].element_id

\* the relationships of the store at a node named like the start entity
\* that leave the node (way = 1) or enter it (way = 2)
AtStart(way) ==
  {i \in 1 .. Len(store.rels) :
     store.names[IF way = 1 THEN store.rels[i].start ELSE store.rels[i].end]
       = call.name}

FoundFirst == {records[i].relationships[1].element_id : i \in 1 .. Len(records)}

\* C15: with direction 'out' every hop of every record follows its edge
\* forward and every edge leaving the start is found, with 'in' every hop
\* follows its edge backward and every edge entering the start is found,
\* with 'both' edges are followed either way; any other direction raises
\* nothing and gives the records, the subgraph and the stats of 'both';
\* stats.direction is one of 'out', 'in', 'both'.
C15_DirectionSelectsTraversal ==
  GotSubgraph =>
    LET hops == {<<i, k>> \in (1 .. Len(records)) \X (1 .. ClampDepth(MaxDepth)) :
                   k <= Len(records[i].relationships)}
        out == {RelId(i) : i \in AtStart(1)}
        in == {RelId(i) : i \in AtStart(2)}
    IN  /\ outcome = "ok"
        /\ call.direction = "out" =>
             /\ \A h \in hops : Forward(records[h[1]], h[2])
             /\ FoundFirst = out
        /\ call.direction = "in" =>
             /\ \A h \in hops : Backward(records[h[1]], h[2])
             /\ FoundFirst = in
        /\ call.direction = "both" =>
             /\ \A h \in hops : Forward(records[h[1]], h[2])
                                    \/ Backward(records[h[1]], h[2])
             /\ FoundFirst = out \cup in
        /\ res_entity.stats.direction
             = (IF call.direction \in {"out", "in", "both"}
                THEN call.direction ELSE "both")
        /\ call.direction \notin {"out", "in", "both"} =>
             /\ records = QueryOf(store, call.name, call.depth, "both")
             /\ res_entity = get_subgraph(store, call.name, call.depth, "both",
                                          call.node_labels, "none").value

\* a call with an unknown direction that has followed one edge forward and
\* another edge backward
C15_Witness ==
  /\ GotSubgraph
  /\ call.direction \notin {"out", "in", "both"}
  /\ \E i, j \in 1 .. Len(records) :
       /\ Forward(records[i], 1) /\ ~Backward(records[i], 1)
       /\ Backward(records[j], 1) /\ ~Forward(records[j], 1)

\* hop number h of path p is an edge of the assembled subgraph: the names
\* of its two nodes with a relation type found between them
HopIsEdge(res, p, h) ==
  \E i \in 1 .. Len(res.edges) :
    /\ HasKey(res.nodes, res.edges[i].start_node_element_id)
    /\ HasKey(res.nodes, res.edges[i].end_node_element_id)
    /\ Get(res.nodes, res.edges[i].start_node_element_id).name = p[4 * h - 3]
    /\ Get(res.nodes, res.edges[i].end_node_element_id).name = p[4 * h + 1]
    /\ \E j \in 1 .. Len(res.edges) :
         /\ res.edges[j].start_node_element_id = res.edges[i].start_node_element_id
         /\ res.edges[j].end_node_element_id = res.edges[i].end_node_element_id
         /\ res.edges[j].properties.relation_type = p[4 * h - 1]

\* C18: every returned path is the name of a node followed, for each of
\* its k edges, by arrow, relation type, arrow, name of the next node: k + 1
\* names, k relation types and 2k arrows; so the paths with at least 4
\* arrows, which _build_paths keeps, are the paths of at least 2 hops.
C18_TwoArrowsPerHop ==
  (Enumerated /\ outcome = "ok") =>
    /\ \A i \in 1 .. Len(res_paths) :
         LET p == res_paths[i]
             k == Hops(p)
         IN  /\ Len(p) = 4 * k + 1
             /\ \E n \in 1 .. Len(res_entity.nodes) : res_entity.nodes[n].name = p[1]
             /\ \A h \in 1 .. k :
                  /\ p[4 * h - 2] = Arrow
                  /\ p[4 * h] = Arrow
                  /\ HopIsEdge(res_entity, p, h)
             /\ Cardinality({t \in 1 .. Len(p) : p[t] = Arrow}) = 2 * k
    /\ HopFilter(res_paths, BuildPathsArrows)
         = SelectSeq(res_paths, LAMBDA p : Hops(p) >= 2)
    /\ call.op = "_build_paths" =>
         entity_path = SelectSeq(res_paths, LAMBDA p : Hops(p) >= 2)

\* _build_paths has kept a path of two hops, which has four arrows
C18_Witness ==
  /\ Enumerated
  /\ call.op = "_build_paths"
  /\ outcome = "ok"
  /\ \E i \in 1 .. Len(entity_path) :
       /\ Hops(entity_path[i]) = 2
       /\ CountArrows(entity_path[i]) = 4

HopOverEdge(res, p, h, i) ==
  /\ p[4 * h - 3] = Get(res.nodes, res.edges[i].start_node_element_id).name
  /\ p[4 * h - 1] = res.edges[i].properties.relation_type
  /\ p[4 * h + 1] = Get(res.nodes, res.edges[i].end_node_element_id).name

\* edges number i and j of the subgraph join the same ordered pair of nodes
Parallel(res, i, j) ==
  /\ i # j
  /\ res.edges[i].start_node_element_id = res.edges[j].start_node_element_id
  /\ res.edges[i].end_node_element_id = res.edges[j].end_node_element_id

\* C20: the relationships of the records that join two nodes labelled Entity
\* are all edges of the assembled subgraph, parallel ones included, and on
\* an acyclic subgraph every edge is a hop of a returned path that carries
\* the relation type of that edge (stated for the subgraphs all of whose
\* nodes have Entity as first label, where the list is returned).
C20_RelationTokenOfTraversedEdge ==
  (Enumerated /\ outcome = "ok" /\ EntityFirst(res_entity) /\ Acyclic(res_entity)) =>
    /\ \A k \in 1 .. Len(RelStream(records, 1)) :
         ( /\ MatchesFilter(RelStream(records, 1)[k].start_element_id)
           /\ MatchesFilter(RelStream(records, 1)[k].end_element_id) )
         => \E i \in 1 .. Len(res_entity.edges) :
              res_entity.edges[i].element_id = RelStream(records, 1)[k].element_id
    /\ \A i \in 1 .. Len(res_entity.edges) :
         \E k \in 1 .. Len(res_paths) :
           \E h \in 1 .. Hops(res_paths[k]) :
             HopOverEdge(res_entity, res_paths[k], h, i)

\* C21: every node of the node set that get_subgraph returned has an entry
\* in the in-degree map and in the adjacency map that the enumerator builds,
\* the nodes pulled back by the repair and the nodes that carry Entity at
\* any position of their label list included.
C21_EveryNodeInDegreeMaps ==
  Enumerated =>
    \A i \in 1 .. Len(res_entity.nodes) :
      /\ res_entity.nodes[i].element_id \in DOMAIN BuildModel(res_entity).du
      /\ res_entity.nodes[i].element_id \in DOMAIN BuildModel(res_entity).ne

\* the orders in which the store can hand over n records
Orderings(n) ==
  {p \in [1 .. n -> 1 .. n] : \A i, j \in 1 .. n : p[i] = p[j] => i = j}

\* the records in the order p
Reorder(recs, p) == [i \in 1 .. Len(recs) |-> recs[p[i]]]

\* the element ids of a list of nodes or of edges
IdsOf(list) == {list[i].element_id : i \in 1 .. Len(list)}

\* C22: the sets of nodes and of edges that get_subgraph returns are the
\* same for every order in which the store hands over the same records.
C22_RecordOrderIrrelevant ==
  Returned =>
    \A p \in Orderings(Len(records)) :
      /\ IdsOf(Assemble(Reorder(records, p), call.node_labels).nodes_list)
           = IdsOf(res_entity.nodes)
      /\ IdsOf(Assemble(Reorder(records, p), call.node_labels).valid_edges)
           = IdsOf(res_entity.edges)

(***************************************************************************)
(* Properties of get_neo4j_service                                         *)
(***************************************************************************)
\* the graph identifier that a call which names graph_id asks for
AskedFor(graph_id) == Neo4jService(graph_id).graph_id

\* C23: the query of every call is scoped to the graph identifier that the
\* call names, also when an earlier call named another one (stated for the
\* processes in which one service has been constructed).
C23_QueryScopedToOwnGraph ==
  Len(instances) = 1 =>
    \A c \in Callers :
      callers[c].pc = "done" => callers[c].scope = AskedFor(callers[c].graph_id)

\* C24: at most one Neo4jService is constructed in the process and every
\* call of get_neo4j_service returns that instance, whatever the
\* interleaving of the callers.
C24_OneServicePerProcess ==
  /\ Len(instances) <= 1
  /\ \A c, d \in Callers :
       ( callers[c].neo4j_service # NoService /\ callers[d].neo4j_service # NoService )
       => callers[c].neo4j_service = callers[d].neo4j_service

(***************************************************************************)
(* Properties of the hop filters                                           *)
(***************************************************************************)
\* out holds, in the order of inp and as they are, the elements of inp
\* with at least minimum arrows, and nothing else
KeepsExactly(inp, out, minimum) ==
  \E f \in [1 .. Len(out) -> 1 .. Len(inp)] :
    /\ \A i, j \in 1 .. Len(out) : i < j => f[i] < f[j]
    /\ \A i \in 1 .. Len(out) : out[i] = inp[f[i]]
    /\ {f[i] : i \in 1 .. Len(out)}
         = {k \in 1 .. Len(inp) : CountArrows(inp[k]) >= minimum}

\* the path strings "A->r1->B" and "A->r1->B->r2->C->r3->D"
OneHopPath == <<"A", Arrow, "r1", Arrow, "B">>

ThreeHopPath ==
  <<"A", Arrow, "r1", Arrow, "B", Arrow, "r2", Arrow, "C", Arrow, "r3", Arrow, "D">>

\* C16: a hop filter keeps exactly the paths with at least minimum arrows,
\* in their order and unchanged; the filter of _build_paths (minimum 4)
\* reduces ["A->r1->B", "A->r1->B->r2->C->r3->D"] to its second element;
\* the filter of step2_get_subgraph is the filter with minimum 1 and
\* removes exactly the paths without arrow.
C16_FilterKeepsByArrowCount ==
  /\ pc = "filtered" => KeepsExactly(res_paths, entity_path, call.minimum)
  /\ (pc = "filtered" /\ call.op = "step2_filter") =>
       \A k \in 1 .. Len(res_paths) :
         (\E i \in 1 .. Len(entity_path) : entity_path[i] = res_paths[k])
         <=> (\E t \in 1 .. Len(res_paths[k]) : res_paths[k][t] = Arrow)
  /\ HopFilter(<<OneHopPath, ThreeHopPath>>, BuildPathsArrows) = <<ThreeHopPath>>
  /\ Step2Filter(<<<<"A">>, OneHopPath, <<"B">>, ThreeHopPath>>)
       = <<OneHopPath, ThreeHopPath>>

\* a filter with a minimum of 2 or more that has kept one path of a full
\* list of paths with arrows, and not the first one
C16_Witness ==
  /\ pc = "filtered"
  /\ call.op = "hop_filter"
  /\ call.minimum >= 2
  /\ Len(res_paths) = MaxList
  /\ Len(entity_path) = 1
  /\ entity_path[1] # res_paths[1]
  /\ \A k \in 1 .. Len(res_paths) : CountArrows(res_paths[k]) >= 1

\* C17: filtering a filtered list again with the same minimum returns the
\* list unchanged.
C17_FilterIdempotent ==
  [][(pc = "filtered" /\ pc' = "refiltered") => entity_path' = entity_path]_vars

\* a list that the filter has shortened, and not to nothing, filtered again
C17_Witness ==
  /\ pc = "refiltered"
  /\ call.op = "hop_filter"
  /\ entity_path # << >>
  /\ Len(entity_path) < Len(res_paths)

====
